---- MODULE Spec2Model ----
(***************************************************************************)
(* Model of the portfolio-construction core of src/src/edhec_risk_kit.py:  *)
(* portfolio_return, portfolio_volatility, optimal_weights,                *)
(* minimize_volatility, minimize_volatility_2, maximize_shape_ratio,       *)
(* efficient_frontier and weigths_max_sharpe_ratio.                        *)
(*                                                                         *)
(* Numbers.  Returns and covariances are exact rationals: an integer       *)
(* numerator over a denominator that is carried beside it.  A weight       *)
(* vector is a record [num, den]: weight i is num[i]/den.  A target return *)
(* is a pair <<num, den>> in the unit of the return vector, and <<>> is    *)
(* Python's None.  Only portfolio_volatility is modelled in floating point *)
(* (specification SpecVol), because its claim is about rounding.           *)
(*                                                                         *)
(* The solver.  scipy.optimize.minimize is a library outside this          *)
(* repository.  It is modelled by its interface: it evaluates the          *)
(* objective (and so raises what the objective raises), and it returns an  *)
(* OptimizeResult of which the code reads only .x.  When it reports        *)
(* success, x is the minimiser of the problem it was given: for the        *)
(* volatility objective the exact minimiser under the linear constraints   *)
(* and the bounds, for the negative Sharpe ratio the best feasible point   *)
(* of a lattice that holds the optimum.  When it does not, x is the        *)
(* iterate it stopped at, which nothing constrains.                        *)
(***************************************************************************)
EXTENDS Integers, Sequences, FiniteSets, TLC

VARIABLES
    retMatrix,   \* caller's ReturnMatrix: per asset, its periodic returns (unit 1/RetScale)
    covmat,      \* caller's covariance matrix: a sequence of rows
    pc,          \* position of the call in progress: "idle", "sweep", "msr", "mvp", "done"
    call,        \* the entry point called and its arguments
    solverLog,   \* the invocations of scipy's minimize made by the call, in order
    weights,     \* optimal_weights: the list of weight vectors built so far
    result,      \* what the call returned
    status,      \* "none" while running, "returned", or the exception raised
    volIn,       \* SpecVol: the (weights, cov_rets) handed to portfolio_volatility
    volOut,      \* SpecVol: what portfolio_volatility returned
    tanIn,       \* SpecTan: the (covmat, mu_exc, scale) handed to weigths_max_sharpe_ratio
    tanOut       \* SpecTan: what weigths_max_sharpe_ratio returned or raised

vars == <<retMatrix, covmat, pc, call, solverLog, weights, result, status,
          volIn, volOut, tanIn, tanOut>>

(***************************************************************************)
(* Bounds of the model.                                                    *)
(***************************************************************************)
MaxAssets == 2      \* the caller's matrix has 1..MaxAssets assets
MaxPoints == 3      \* efficient_frontier is called with n_portfolios in 0..MaxPoints
RetScale == 4       \* a periodic return r is the integer r * RetScale

None == <<>>

(***************************************************************************)
(* Vector helpers.                                                         *)
(***************************************************************************)
RECURSIVE SumSeq(_)
SumSeq(s) == IF s = <<>> THEN 0 ELSE Head(s) + SumSeq(Tail(s))

RECURSIVE ProdSeq(_)
ProdSeq(s) == IF s = <<>> THEN 1 ELSE Head(s) * ProdSeq(Tail(s))

RECURSIVE Pow(_, _)
Pow(b, e) == IF e = 0 THEN 1 ELSE b * Pow(b, e - 1)

SeqMin(s) == CHOOSE m \in {s[i] : i \in 1..Len(s)} : \A i \in 1..Len(s) : m <= s[i]
SeqMax(s) == CHOOSE m \in {s[i] : i \in 1..Len(s)} : \A i \in 1..Len(s) : m >= s[i]

\* np.dot of two 1-d arrays of the same length
Dot(a, b) == SumSeq([i \in 1..Len(a) |-> a[i] * b[i]])

\* np.repeat(v, n)
Repeat(v, n) == [i \in 1..n |-> v]

Abs(x) == IF x < 0 THEN 0 - x ELSE x

\* the sign of x: -1, 0 or 1
Sgn(x) == IF x < 0 THEN 0 - 1 ELSE IF x > 0 THEN 1 ELSE 0

RECURSIVE Gcd(_, _)
Gcd(a, b) == IF b = 0 THEN a ELSE Gcd(b, a % b)

RECURSIVE GcdSeq(_)
GcdSeq(s) == IF s = <<>> THEN 0 ELSE Gcd(Abs(Head(s)), GcdSeq(Tail(s)))

RECURSIVE LcmUpTo(_)
LcmUpTo(n) == IF n <= 1 THEN 1 ELSE (n * LcmUpTo(n - 1)) \div Gcd(n, LcmUpTo(n - 1))

\* the vector nums / den (den # 0) in lowest terms, with a positive denominator
Reduced(nums, den) ==
    LET g == GcdSeq(<<den>> \o nums)
    IN  [num |-> [i \in 1..Len(nums) |-> (Sgn(den) * nums[i]) \div g],
         den |-> Abs(den) \div g]

\* the matrix m without its first row and its j-th column
Minor(m, j) ==
    [i \in 1..(Len(m) - 1) |->
        [k \in 1..(Len(m) - 1) |-> m[i + 1][IF k < j THEN k ELSE k + 1]]]

\* the determinant of a square matrix, expanded along its first row
RECURSIVE Det(_)
Det(m) ==
    IF Len(m) = 0 THEN 1
    ELSE IF Len(m) = 1 THEN m[1][1]
    ELSE IF Len(m) = 2 THEN m[1][1] * m[2][2] - m[1][2] * m[2][1]
    ELSE IF Len(m) = 3
         THEN m[1][1] * (m[2][2] * m[3][3] - m[2][3] * m[3][2])
              - m[1][2] * (m[2][1] * m[3][3] - m[2][3] * m[3][1])
              + m[1][3] * (m[2][1] * m[3][2] - m[2][2] * m[3][1])
    ELSE SumSeq([j \in 1..Len(m) |->
                    IF m[1][j] = 0 THEN 0
                    ELSE (IF j % 2 = 1 THEN 1 ELSE 0 - 1) * m[1][j] * Det(Minor(m, j))])

\* the matrix m with its j-th column replaced by the vector v
ReplaceCol(m, j, v) ==
    [i \in 1..Len(m) |-> [k \in 1..Len(m) |-> IF k = j THEN v[i] ELSE m[i][k]]]

(***************************************************************************)
(* Caller inputs.  Every series has Periods observations; the covariance   *)
(* matrix has 2 on its diagonal and c elsewhere.  Its shape need not match *)
(* the number of assets: nothing in the code makes it.                     *)
(***************************************************************************)
SeriesVals == {<<0 - 1, 0>>, <<1, 1>>}
CovOffDiag == {0, 1}
PpyChoices == {2, 4}

CovMatrix(rows, cols, c) == [i \in 1..rows |-> [j \in 1..cols |-> IF i = j THEN 2 ELSE c]]

Shapes(n) == {<<n, n>>, <<n + 1, n + 1>>, <<n, n + 1>>}

IsSquare(cov) == \A i \in 1..Len(cov) : Len(cov[i]) = Len(cov)

\* the shapes np.dot accepts in portfolio_volatility: cov (n x n) against w (n)
ShapesAgree(n, cov) == Len(cov) = n /\ IsSquare(cov)

(***************************************************************************)
(* annualize_rets: growth ** (periods_per_year / n_period_growth) - 1.     *)
(* With periods_per_year a multiple of the number of observations the      *)
(* exponent e is an integer and the result is the exact rational           *)
(* AnnualizeSeries / RetDen.                                               *)
(***************************************************************************)
AnnExp(s, periods_per_year) == periods_per_year \div Len(s)

AnnualizeSeries(s, periods_per_year) ==
    LET growth == ProdSeq([t \in 1..Len(s) |-> RetScale + s[t]])
        e == AnnExp(s, periods_per_year)
    IN  Pow(growth, e) - Pow(RetScale, Len(s) * e)

\* the DataFrame branch: s.aggregate(annualize_rets, ...) column by column
annualize_rets(m, periods_per_year) ==
    [i \in 1..Len(m) |-> AnnualizeSeries(m[i], periods_per_year)]

(***************************************************************************)
(* portfolio_return(weights, vec_returns) = np.dot(weights, vec_returns):  *)
(* the rational PortRetNum / w.den, in the unit of vec_returns.            *)
(***************************************************************************)
portfolio_return(w, vec_returns) == [num |-> Dot(w.num, vec_returns), den |-> w.den]

\* w' . cov . w as a numerator over w.den squared (exact; the rounded form is
\* FloatQuadForm below)
QuadNum(wnum, cov) ==
    Dot(wnum, [i \in 1..Len(cov) |-> Dot(cov[i], wnum)])

\* a <= b for rationals with positive denominators
RatLeq(a, b) == a.num * b.den <= b.num * a.den
RatEq(a, b) == a.num * b.den = b.num * a.den

(***************************************************************************)
(* The problem an entry point hands to scipy.optimize.minimize.            *)
(***************************************************************************)
\* mutant of InitGuess: the solver is warm-started from the weights the
\* previous invocation of the sweep returned
InitGuessWarmStart(n_assets) == IF weights # <<>> THEN weights[Len(weights)] ELSE [num |-> Repeat(1, n_assets), den |-> n_assets]

InitGuess(n_assets) == [num |-> Repeat(1, n_assets), den |-> n_assets]

UnitBounds(n_assets) == Repeat(<<0, 1>>, n_assets)

\* {"type": "eq", "fun": lambda w: 1.0 - np.sum(w)}
weights_constraint ==
    [type |-> "eq", fun |-> "sum_to_one", target |-> None, args |-> <<>>]

\* {"type": "eq", "args": (rets,), "fun": lambda w, r: target_return - portfolio_return(w, r)}
return_constraint(target_return, rets) ==
    [type |-> "eq", fun |-> "target_return", target |-> target_return, args |-> <<rets>>]

\* {"type": "eq", "args": (covmatrix, periods_per_year),
\*  "fun": lambda w, cov, p: target_volatility - annualize_vol(portfolio_volatility(w, cov), p)}
volatility_constraint(target_volatility, covmatrix, periods_per_year) ==
    [type |-> "eq", fun |-> "target_volatility", target |-> target_volatility,
     args |-> <<covmatrix, periods_per_year>>]

\* mutant of MinimizeVolatilityProblem: with a target the sum-to-one
\* constraint is left out
MinimizeVolatilityTargetOnly(rets, covmatrix, target_return) ==
    LET n_assets == Len(rets)
        constr == IF target_return # None
                  THEN <<return_constraint(target_return, rets)>>
                  ELSE <<weights_constraint>>
    IN  [fun |-> "portfolio_volatility",
         x0 |-> InitGuess(n_assets),
         args |-> <<covmatrix>>,
         constraints |-> constr,
         bounds |-> UnitBounds(n_assets)]

\* minimize_volatility: the arguments of its call of minimize
MinimizeVolatilityProblem(rets, covmatrix, target_return) ==
    LET n_assets == Len(rets)
        constr == IF target_return # None
                  THEN <<return_constraint(target_return, rets), weights_constraint>>
                  ELSE <<weights_constraint>>
    IN  [fun |-> "portfolio_volatility",
         x0 |-> InitGuess(n_assets),
         args |-> <<covmatrix>>,
         constraints |-> constr,
         bounds |-> UnitBounds(n_assets)]

\* mutant of MinimizeVolatility2Problem: the bounds are passed whatever
\* weights_bound_const says
MinimizeVolatility2AlwaysBounded(rets, covmatrix, target_return, weights_norm_const, weights_bound_const) ==
    LET n_assets == Len(rets)
        c1 == IF weights_norm_const THEN <<weights_constraint>> ELSE <<>>
        c2 == IF target_return # None
              THEN Append(c1, return_constraint(target_return, rets))
              ELSE c1
    IN  [fun |-> "portfolio_volatility",
         x0 |-> InitGuess(n_assets),
         args |-> <<covmatrix>>,
         constraints |-> c2,
         bounds |-> UnitBounds(n_assets)]

\* minimize_volatility_2: the arguments of its call of minimize
MinimizeVolatility2Problem(rets, covmatrix, target_return, weights_norm_const, weights_bound_const) ==
    LET n_assets == Len(rets)
        bounds == IF weights_bound_const THEN UnitBounds(n_assets) ELSE None
        c1 == IF weights_norm_const THEN <<weights_constraint>> ELSE <<>>
        c2 == IF target_return # None
              THEN Append(c1, return_constraint(target_return, rets))
              ELSE c1
    IN  [fun |-> "portfolio_volatility",
         x0 |-> InitGuess(n_assets),
         args |-> <<covmatrix>>,
         constraints |-> c2,
         bounds |-> bounds]

\* maximize_shape_ratio: the arguments of its call of minimize
MaximizeSharpeProblem(rets, covmatrix, risk_free_rate, periods_per_year, target_volatility) ==
    LET n_assets == Len(rets)
        constr == IF target_volatility # None
                  THEN <<volatility_constraint(target_volatility, covmatrix,
                                               periods_per_year),
                         weights_constraint>>
                  ELSE <<weights_constraint>>
    IN  [fun |-> "neg_portfolio_sharpe_ratio",
         x0 |-> InitGuess(n_assets),
         args |-> <<rets, covmatrix, risk_free_rate, periods_per_year>>,
         constraints |-> constr,
         bounds |-> UnitBounds(n_assets)]

(***************************************************************************)
(* scipy.optimize.minimize(fun, x0, args, method="SLSQP", constraints,     *)
(* bounds), by its interface.                                              *)
(***************************************************************************)
NoVec == [num |-> <<>>, den |-> 0]

ProblemSize(p) == Len(p.x0.num)

\* the covariance matrix among the objective's args
ProblemCov(p) == IF p.fun = "portfolio_volatility" THEN p.args[1] ELSE p.args[2]

\* Evaluating the objective at x0 is np.dot(weights.T, np.dot(cov_rets, weights)):
\* numpy raises ValueError unless cov_rets is n x n.
ObjectiveRaises(p) == ~ShapesAgree(ProblemSize(p), ProblemCov(p))

ConstraintFuns(p) == {p.constraints[i].fun : i \in 1..Len(p.constraints)}

\* the value of an equality constraint's fun at x is zero
Satisfies(x, c) ==
    CASE c.fun = "sum_to_one" -> SumSeq(x.num) = x.den
      [] c.fun = "target_return" ->
            Dot(x.num, c.args[1]) * c.target[2] = c.target[1] * x.den
      [] c.fun = "target_volatility" ->
            QuadNum(x.num, c.args[1]) * c.args[2] * c.target[2] * c.target[2]
                = c.target[1] * c.target[1] * x.den * x.den

WithinBounds(x, bounds) ==
    bounds = None \/
    \A i \in 1..Len(x.num) :
        bounds[i][1] * x.den <= x.num[i] /\ x.num[i] <= bounds[i][2] * x.den

Feasible(x, p) ==
    /\ \A i \in 1..Len(p.constraints) : Satisfies(x, p.constraints[i])
    /\ WithinBounds(x, p.bounds)

\* The points the model searches for the optimum of the negative Sharpe ratio:
\* weights in steps of 1/lcm(1..n) (the caller's assets come in two kinds and
\* the covariance matrix is symmetric in them, so the optimum spreads equally
\* over some of the assets).
Candidates(p) ==
    LET n == ProblemSize(p)
        d == LcmUpTo(n)
        range == IF p.bounds = None THEN (0 - 1)..(d + 1) ELSE 0..d
    IN  {[num |-> v, den |-> d] : v \in [1..n -> range]}

\* The value of the objective at x is at most its value at y.
\* portfolio_volatility is sqrt(x'.cov.x); the negative Sharpe ratio is
\* -(x.rets - rf) / sqrt(ppy * x'.cov.x), compared through its sign and its
\* square (x'.cov.x > 0 at the points compared).
ObjectiveLeq(p, x, y) ==
    IF p.fun = "portfolio_volatility"
    THEN QuadNum(x.num, p.args[1]) * y.den * y.den
             <= QuadNum(y.num, p.args[1]) * x.den * x.den
    ELSE LET ax == Dot(x.num, p.args[1]) - p.args[3] * x.den
             ay == Dot(y.num, p.args[1]) - p.args[3] * y.den
             qx == QuadNum(x.num, p.args[2])
             qy == QuadNum(y.num, p.args[2])
         IN  CASE ax >= 0 /\ ay < 0 -> TRUE
               [] ax < 0 /\ ay >= 0 -> FALSE
               [] ax >= 0 /\ ay >= 0 -> ax * ax * qy >= ay * ay * qx
               [] OTHER -> ax * ax * qy <= ay * ay * qx

\* A linear equality constraint of the problem as the row a . x = b:
\* 1.0 - np.sum(w) = 0, and target_return - np.dot(w, r) = 0 times the
\* target's denominator.
EqRow(c, n) ==
    IF c.fun = "sum_to_one"
    THEN [a |-> Repeat(1, n), b |-> 1]
    ELSE [a |-> [j \in 1..n |-> c.target[2] * c.args[1][j]], b |-> c.target[1]]

\* for every coordinate whether it is free or sits at a bound
ActiveSets(p) ==
    IF p.bounds = None
    THEN {Repeat("free", ProblemSize(p))}
    ELSE [1..ProblemSize(p) -> {"free", "lower", "upper"}]

\* The least point of w' . cov . w on the face of the feasible set where the
\* equality constraints eqs (indices into p.constraints) hold and the
\* coordinates that act does not leave free sit at their bound v.  With the
\* free coordinates xf and the rows E of eqs it is the solution of
\*     cov_ff . xf + E_f' . lam = - cov_fv . v,     E_f . xf = b - E_v . v
\* by Cramer's rule; nu = -(cov . x + E' . lam) at a coordinate that sits at
\* a bound is the multiplier of that bound.  The set is empty when the rows
\* are dependent, when the point breaks a bound of p or a constraint of p
\* that is not among eqs, or when a multiplier has the sign that lets the
\* objective fall on leaving the bound.
FaceMinimum(p, eqs, act) ==
    LET n == ProblemSize(p)
        cov == p.args[1]
        eqIdx == SelectSeq([i \in 1..Len(p.constraints) |-> i], LAMBDA i : i \in eqs)
        fr == SelectSeq([j \in 1..n |-> j], LAMBDA j : act[j] = "free")
        f == Len(fr)
        r == Len(eqIdx)
        v == [j \in 1..n |-> IF act[j] = "lower" THEN p.bounds[j][1]
                             ELSE IF act[j] = "upper" THEN p.bounds[j][2]
                             ELSE 0]
        E == [k \in 1..r |-> EqRow(p.constraints[eqIdx[k]], n)]
        K == [i \in 1..(f + r) |-> [j \in 1..(f + r) |->
                IF i <= f /\ j <= f THEN cov[fr[i]][fr[j]]
                ELSE IF i <= f THEN E[j - f].a[fr[i]]
                ELSE IF j <= f THEN E[i - f].a[fr[j]]
                ELSE 0]]
        rhs == [i \in 1..(f + r) |->
                IF i <= f THEN 0 - Dot(cov[fr[i]], v)
                ELSE E[i - f].b - Dot(E[i - f].a, v)]
        D == Det(K)
        sol == [i \in 1..(f + r) |-> Det(ReplaceCol(K, i, rhs))]
        pos(j) == Cardinality({i \in 1..j : act[i] = "free"})
        X == [j \in 1..n |-> IF act[j] = "free" THEN sol[pos(j)] ELSE D * v[j]]
        x == Reduced(X, D)
        nu(j) == (0 - Sgn(Dot(cov[j], X) + SumSeq([k \in 1..r |-> E[k].a[j] * sol[f + k]])))
                     * Sgn(D)
    IN  IF r > f THEN {}
        ELSE IF D = 0 THEN {}
        ELSE IF /\ \A i \in 1..Len(p.constraints) :
                      i \in eqs \/ Satisfies(x, p.constraints[i])
                /\ WithinBounds(x, p.bounds)
                /\ \A j \in 1..n :
                      /\ act[j] = "lower" => nu(j) <= 0
                      /\ act[j] = "upper" => nu(j) >= 0
             THEN {x}
             ELSE {}

\* the face minima that are minimisers of the problem, over the faces with
\* exactly k coordinates at a bound
FaceMinima(p, k) ==
    UNION {FaceMinimum(p, eqs, act) :
               eqs \in SUBSET (1..Len(p.constraints)),
               act \in {a \in ActiveSets(p) :
                           Cardinality({j \in 1..ProblemSize(p) : a[j] # "free"}) = k}}

\* The minimiser of portfolio_volatility under the problem's constraints and
\* bounds, exactly: the volatility is sqrt(w' . cov . w) with cov positive
\* definite and the constraints are linear, so a feasible point is the
\* minimiser iff it is the least point of a face with multipliers of the
\* right sign, and there is at most one.  The faces are searched from k
\* coordinates at a bound upwards, up to the first that has it.
RECURSIVE VolatilityMinimisers(_, _)
VolatilityMinimisers(p, k) ==
    IF k > ProblemSize(p) THEN {}
    ELSE LET found == FaceMinima(p, k)
         IN  IF found # {} THEN found ELSE VolatilityMinimisers(p, k + 1)

\* success: a feasible point at which the objective is least
Converged(p) ==
    IF p.fun = "portfolio_volatility"
    THEN VolatilityMinimisers(p, 0)
    ELSE LET feas == {c \in Candidates(p) : Feasible(c, p)}
         IN  {x \in feas : \A y \in feas : ObjectiveLeq(p, x, y)}

\* The iterates the model lets the solver stop at without converging: the
\* starting point (no progress) and the origin.
Iterates(p) ==
    LET n == ProblemSize(p)
    IN  {p.x0, [num |-> Repeat(0, n), den |-> n]}

Minimize(p) ==
    IF ObjectiveRaises(p)
    THEN {[raised |-> "ValueError", success |-> FALSE, x |-> NoVec]}
    ELSE {[raised |-> "", success |-> TRUE, x |-> x] : x \in Converged(p)}
         \cup {[raised |-> "", success |-> FALSE, x |-> x] : x \in Iterates(p)}

\* what the three optimizers do with the OptimizeResult: "return result.x"
ResultX(o) == o.x

(***************************************************************************)
(* np.linspace(start, stop, num): num samples start + i * step with        *)
(* step = (stop - start) / (num - 1); a single sample is start.  Each      *)
(* sample is the pair <<numerator, denominator>>.                          *)
(***************************************************************************)
LinspaceDiv(num) == IF num > 1 THEN num - 1 ELSE 1

Linspace(start, stop, num) ==
    [i \in 1..num |-> <<start * LinspaceDiv(num) + (i - 1) * (stop - start),
                        LinspaceDiv(num)>>]

\* optimal_weights: target_rets = np.linspace(rets.min(), rets.max(), n_points)
TargetRets(rets, n_points) == Linspace(SeqMin(rets), SeqMax(rets), n_points)

\* mutant of EqualWeights: np.repeat(1, n), the division by the number of assets lost
EqualWeightsUnscaled(ann_rets) == [num |-> Repeat(1, Len(ann_rets)), den |-> 1]

\* efficient_frontier: w = np.repeat(1 / ann_rets.shape[0], ann_rets.shape[0])
EqualWeights(ann_rets) == [num |-> Repeat(1, Len(ann_rets)), den |-> Len(ann_rets)]

(***************************************************************************)
(* The records of the state.  The frontier table ef has one row per sweep  *)
(* point and df one row per named portfolio; a row keeps the weights and   *)
(* the "Return" column.  The "Volatility" and "Sharpe Ratio" columns are   *)
(* functions of the same weights and are not kept.                         *)
(***************************************************************************)
NoCall ==
    [fn |-> "", rets |-> <<>>, target |-> None, norm |-> TRUE, bound |-> TRUE,
     rf |-> 0, ppy |-> 0, tvol |-> None, n_portfolios |-> 0]

NoResult == [x |-> NoVec, ef |-> <<>>, df |-> <<>>]

LogEntry(p, o) == [problem |-> p, outcome |-> o]

Row(name, w, ann_rets) ==
    [name |-> name, weights |-> w, Return |-> portfolio_return(w, ann_rets)]

\* the targets a caller passes to the optimizers: none, the ends and the middle
\* of the attainable range, and one above it
TargetChoices(rets) ==
    {None, <<SeqMin(rets), 1>>, <<SeqMax(rets), 1>>,
     <<SeqMin(rets) + SeqMax(rets), 2>>, <<SeqMax(rets) + 1, 1>>}

TvolChoices == {None, <<2, 1>>}
RfChoices == {0, 1}
DefaultRf == 0      \* efficient_frontier(..., risk_free_rate=0.0, ...)

Inputs ==
    UNION {{<<m, CovMatrix(sh[1], sh[2], c)>> :
                m \in [1..n -> SeriesVals], sh \in Shapes(n), c \in CovOffDiag} :
           n \in 1..MaxAssets}

Init ==
    /\ \E in \in Inputs : retMatrix = in[1] /\ covmat = in[2]
    /\ pc = "idle"
    /\ call = NoCall
    /\ solverLog = <<>>
    /\ weights = <<>>
    /\ result = NoResult
    /\ status = "none"
    /\ volIn = <<>> /\ volOut = <<>> /\ tanIn = <<>> /\ tanOut = <<>>

Ready == pc = "idle"

\* one optimizer entry point, from call to return: it builds the problem p,
\* calls minimize(p) once and returns result.x (an exception of the solver
\* propagates)
OptimizerCall(c, p) ==
    \E o \in Minimize(p) :
        /\ call' = c
        /\ solverLog' = <<LogEntry(p, o)>>
        /\ status' = IF o.raised # "" THEN o.raised ELSE "returned"
        /\ result' = IF o.raised # "" THEN NoResult
                     ELSE [NoResult EXCEPT !.x = ResultX(o)]
        /\ pc' = "done"
        /\ weights' = <<>>
        /\ UNCHANGED <<retMatrix, covmat, volIn, volOut, tanIn, tanOut>>

CallMinimizeVolatility ==
    /\ Ready
    /\ \E ppy \in PpyChoices :
         LET rets == annualize_rets(retMatrix, ppy) IN
         \E target \in TargetChoices(rets) :
            OptimizerCall(
                [NoCall EXCEPT !.fn = "minimize_volatility", !.rets = rets,
                               !.target = target],
                MinimizeVolatilityProblem(rets, covmat, target))

CallMinimizeVolatility2 ==
    /\ Ready
    /\ \E ppy \in PpyChoices :
         LET rets == annualize_rets(retMatrix, ppy) IN
         \E target \in TargetChoices(rets), nc \in BOOLEAN, bc \in BOOLEAN :
            OptimizerCall(
                [NoCall EXCEPT !.fn = "minimize_volatility_2", !.rets = rets,
                               !.target = target, !.norm = nc, !.bound = bc],
                MinimizeVolatility2Problem(rets, covmat, target, nc, bc))

CallMaximizeSharpeRatio ==
    /\ Ready
    /\ \E ppy \in PpyChoices :
         LET rets == annualize_rets(retMatrix, ppy) IN
         \E rf \in RfChoices, tvol \in TvolChoices :
            OptimizerCall(
                [NoCall EXCEPT !.fn = "maximize_shape_ratio", !.rets = rets,
                               !.rf = rf, !.ppy = ppy, !.tvol = tvol],
                MaximizeSharpeProblem(rets, covmat, rf, ppy, tvol))

(***************************************************************************)
(* efficient_frontier(n_portfolios, rets, covmat, periods_per_year,        *)
(* risk_free_rate).  The call is followed from one invocation of the       *)
(* solver to the next: each step below runs the code up to and including   *)
(* one call of minimize, and the last one runs it to the return.           *)
(***************************************************************************)
\* lines 262-265: ann_rets = annualize_rets(...), then optimal_weights is entered
FrontierStart ==
    /\ Ready
    /\ \E n_portfolios \in 0..MaxPoints, ppy \in PpyChoices, rf \in {DefaultRf} :
         call' = [NoCall EXCEPT !.fn = "efficient_frontier",
                                !.rets = annualize_rets(retMatrix, ppy),
                                !.n_portfolios = n_portfolios, !.ppy = ppy, !.rf = rf]
    /\ pc' = "optimal_weights"
    /\ weights' = <<>>
    /\ solverLog' = <<>>
    /\ result' = NoResult
    /\ status' = "none"
    /\ UNCHANGED <<retMatrix, covmat, volIn, volOut, tanIn, tanOut>>

\* optimal_weights, one element of
\* [minimize_volatility(rets, covmatrix, target) for target in target_rets]
OptimalWeightsStep ==
    /\ pc = "optimal_weights"
    /\ Len(weights) < call.n_portfolios
    /\ LET target == TargetRets(call.rets, call.n_portfolios)[Len(weights) + 1]
           p == MinimizeVolatilityProblem(call.rets, covmat, target)
       IN  \E o \in Minimize(p) :
             /\ solverLog' = Append(solverLog, LogEntry(p, o))
             /\ IF o.raised # ""
                THEN /\ status' = o.raised
                     /\ pc' = "done"
                     /\ weights' = weights
                ELSE /\ status' = status
                     /\ pc' = pc
                     /\ weights' = Append(weights, ResultX(o))
    /\ UNCHANGED <<retMatrix, covmat, call, result, volIn, volOut, tanIn, tanOut>>

\* lines 270-292: the frontier table from the weights optimal_weights returned
FrontierTable(ws, ann_rets) ==
    [i \in 1..Len(ws) |-> Row("", ws[i], ann_rets)]

\* lines 265-304: optimal_weights has returned; the table ef is built and the
\* maximum-Sharpe portfolio is solved for
FrontierMsr ==
    /\ pc = "optimal_weights"
    /\ Len(weights) = call.n_portfolios
    /\ LET p == MaximizeSharpeProblem(call.rets, covmat, call.rf, call.ppy, None)
           ef == FrontierTable(weights, call.rets)
       IN  \E o \in Minimize(p) :
             /\ solverLog' = Append(solverLog, LogEntry(p, o))
             /\ IF o.raised # ""
                THEN /\ status' = o.raised
                     /\ pc' = "done"
                     /\ result' = result
                ELSE /\ status' = status
                     /\ pc' = "mvp"
                     /\ result' = [result EXCEPT
                            !.ef = ef,
                            !.df = <<Row("Maximum Sharpe Ratio", ResultX(o), call.rets)>>]
    /\ UNCHANGED <<retMatrix, covmat, call, weights, volIn, volOut, tanIn, tanOut>>

\* lines 325-367: the minimum-volatility portfolio is solved for, the
\* equally weighted one is computed, and (ef, df) is returned
FrontierMvp ==
    /\ pc = "mvp"
    /\ LET p == MinimizeVolatilityProblem(call.rets, covmat, None)
       IN  \E o \in Minimize(p) :
             /\ solverLog' = Append(solverLog, LogEntry(p, o))
             /\ IF o.raised # ""
                THEN /\ status' = o.raised
                     /\ result' = result
                ELSE /\ status' = "returned"
                     /\ result' = [result EXCEPT
                            !.df = result.df \o
                                <<Row("Minimum Volatility", ResultX(o), call.rets),
                                  Row("Equally Weighted", EqualWeights(call.rets),
                                      call.rets)>>]
    /\ pc' = "done"
    /\ UNCHANGED <<retMatrix, covmat, call, weights, volIn, volOut, tanIn, tanOut>>

\* the caller takes the result (or the exception) of the finished call; its
\* inputs stay, and it may call again
Finish ==
    /\ pc = "done"
    /\ pc' = "idle"
    /\ call' = NoCall
    /\ solverLog' = <<>>
    /\ weights' = <<>>
    /\ result' = NoResult
    /\ status' = "none"
    /\ UNCHANGED <<retMatrix, covmat, volIn, volOut, tanIn, tanOut>>

Next ==
    \/ CallMinimizeVolatility
    \/ CallMinimizeVolatility2
    \/ CallMaximizeSharpeRatio
    \/ FrontierStart
    \/ OptimalWeightsStep
    \/ FrontierMsr
    \/ FrontierMvp
    \/ Finish

Spec == Init /\ [][Next]_vars

(***************************************************************************)
(* Properties of the optimizers and of the frontier, checked under Spec.   *)
(***************************************************************************)
Optimizers == {"minimize_volatility", "minimize_volatility_2", "maximize_shape_ratio"}

Returned(fn) == call.fn = fn /\ pc = "done" /\ status = "returned"

\* sum(w) = 1 and every w_i in [0, 1] (the tolerance 1e-6 is finer than the
\* model's weights)
OnSimplex(w) ==
    /\ SumSeq(w.num) = w.den
    /\ \A i \in 1..Len(w.num) : 0 <= w.num[i] /\ w.num[i] <= w.den

SolverFailed(i) == solverLog[i].outcome.raised = "" /\ ~solverLog[i].outcome.success

\* C1: every weight vector returned by minimize_volatility (with or without a
\* target return) and by maximize_shape_ratio sums to 1 and has every entry in
\* [0, 1], whatever the solver's outcome, non-convergence included.
C1_ReturnedWeightsOnSimplex ==
    /\ (Returned("minimize_volatility") \/ Returned("maximize_shape_ratio"))
           => OnSimplex(result.x)
    /\ call.fn = "efficient_frontier"
           => \A i \in 1..Len(weights) : OnSimplex(weights[i])

\* C2: when the solver reports no success, minimize_volatility,
\* minimize_volatility_2 and maximize_shape_ratio do not return normally with
\* the solver's last iterate.
C2_NonConvergenceSurfaced ==
    (call.fn \in Optimizers /\ pc = "done" /\ \E i \in 1..Len(solverLog) : SolverFailed(i))
        => status # "returned"

\* C3: in the table efficient_frontier returns, the "Return" column is
\* non-decreasing from the first row to the last, for every solver outcome.
C3_ReturnColumnMonotone ==
    Returned("efficient_frontier")
        => \A i \in 1..(Len(result.ef) - 1) :
               RatLeq(result.ef[i].Return, result.ef[i + 1].Return)

\* the sweep of optimal_weights has run to its end
SweepDone ==
    /\ call.fn = "efficient_frontier"
    /\ pc = "mvp" \/ (pc = "done" /\ status = "returned")

\* the invocations of the solver that carry a target-return constraint
TargetCalls ==
  SelectSeq(solverLog, LAMBDA e : "target_return" \in ConstraintFuns(e.problem))

TargetOf(p) ==
    p.constraints[CHOOSE i \in 1..Len(p.constraints) :
                      p.constraints[i].fun = "target_return"].target

\* the i-th of n equally spaced points from lo to hi, as a rational
GridPoint(lo, hi, n, i) == [num |-> lo * (n - 1) + (i - 1) * (hi - lo), den |-> n - 1]

AsRat(t) == [num |-> t[1], den |-> t[2]]

\* once optimal_weights(n_points, rets, ...) has returned: n_points vectors,
\* one solver call per vector, the i-th vector the result of the i-th call
SweepShape ==
    /\ Len(weights) = call.n_portfolios
    /\ Len(TargetCalls) = call.n_portfolios
    /\ \A i \in 1..call.n_portfolios :
         /\ solverLog[i] = TargetCalls[i]
         /\ solverLog[i].problem.fun = "portfolio_volatility"
         /\ ConstraintFuns(solverLog[i].problem) = {"target_return", "sum_to_one"}
         /\ weights[i] = solverLog[i].outcome.x

\* the i-th call's target is the i-th of n_points equally spaced points from
\* min(rets) to max(rets)
SweepGrid ==
    \A i \in 1..call.n_portfolios :
        RatEq(AsRat(TargetOf(solverLog[i].problem)),
              GridPoint(SeqMin(call.rets), SeqMax(call.rets), call.n_portfolios, i))

\* C4: optimal_weights(n_points, rets, ...), for every n_points: the solver is
\* invoked with a target-return constraint once per grid point and the i-th
\* vector returned is the result for the i-th; the grid has n_points targets,
\* the first min(rets) and the last max(rets), equally spaced and in
\* non-decreasing order.
C4_GridForEveryNPoints ==
    SweepDone =>
        /\ SweepShape
        /\ call.n_portfolios >= 1 =>
             /\ RatEq(AsRat(TargetOf(solverLog[1].problem)),
                      [num |-> SeqMin(call.rets), den |-> 1])
             /\ RatEq(AsRat(TargetOf(solverLog[call.n_portfolios].problem)),
                      [num |-> SeqMax(call.rets), den |-> 1])
        /\ call.n_portfolios >= 2 =>
             /\ SweepGrid
             /\ \A i \in 1..(call.n_portfolios - 1) :
                    RatLeq(AsRat(TargetOf(solverLog[i].problem)),
                           AsRat(TargetOf(solverLog[i + 1].problem)))

\* C6: a covariance matrix that is not square, or whose size is not the
\* length of the return vector, makes the optimizer entry points fail before
\* the solver is invoked: the solver is never called on such input.
C6_ShapeCheckedBeforeSolver ==
    (call.fn \in Optimizers /\ ~ShapesAgree(Len(call.rets), covmat))
        => solverLog = <<>>

\* C7: efficient_frontier with fewer than 2 assets, or with n_portfolios below
\* 2, does not return a frontier table.
C7_DegenerateInputRejected ==
    (call.fn = "efficient_frontier"
        /\ (Len(call.rets) < 2 \/ call.n_portfolios < 2))
        => status # "returned"

\* C8: in efficient_frontier the equally weighted portfolio has weights 1/N
\* each and return portfolio_return([1/N]*N, ann_rets), and no solver call is
\* made for it: the solver is invoked n_portfolios times for the sweep, then
\* once for maximum Sharpe and once for minimum volatility without a target.
C8_EqualWeightClosedForm ==
    Returned("efficient_frontier") =>
        LET n == Len(call.rets)
            k == call.n_portfolios
            ewp == result.df[3]
        IN  /\ Len(result.df) = 3
            /\ ewp.name = "Equally Weighted"
            /\ Len(ewp.weights.num) = n
            /\ \A i \in 1..n : ewp.weights.num[i] * n = ewp.weights.den
            /\ RatEq(ewp.Return, [num |-> SumSeq(call.rets), den |-> n])
            /\ Len(solverLog) = k + 2
            /\ \A i \in 1..k :
                   "target_return" \in ConstraintFuns(solverLog[i].problem)
            /\ solverLog[k + 1].problem.fun = "neg_portfolio_sharpe_ratio"
            /\ ConstraintFuns(solverLog[k + 1].problem) = {"sum_to_one"}
            /\ solverLog[k + 2].problem.fun = "portfolio_volatility"
            /\ ConstraintFuns(solverLog[k + 2].problem) = {"sum_to_one"}

\* a frontier of two assets and two sweep points has been returned
C8_Witness ==
    /\ Returned("efficient_frontier")
    /\ Len(call.rets) = 2
    /\ call.n_portfolios = 2
    /\ Len(solverLog) = 4

\* C9: the problem minimize_volatility_2 hands to the solver has the
\* sum-to-one constraint iff weights_norm_const, the target-return constraint
\* (on the given target) iff target_return is not None, and the bounds [0, 1]
\* per asset iff weights_bound_const (no bounds otherwise); with both flags
\* false the solver is still invoked and the call returns.
C9_KnobsDecideProblem ==
    (call.fn = "minimize_volatility_2" /\ pc = "done") =>
        /\ Len(solverLog) = 1
        /\ LET p == solverLog[1].problem
           IN  /\ ("sum_to_one" \in ConstraintFuns(p)) <=> call.norm
               /\ ("target_return" \in ConstraintFuns(p)) <=> (call.target # None)
               /\ call.target # None => TargetOf(p) = call.target
               /\ ConstraintFuns(p) \subseteq {"sum_to_one", "target_return"}
               /\ Len(p.constraints) = Cardinality(ConstraintFuns(p))
               /\ p.bounds = (IF call.bound THEN UnitBounds(Len(call.rets)) ELSE None)
        /\ ShapesAgree(Len(call.rets), covmat) => status = "returned"

\* minimize_volatility_2 has returned with both flags false and no target
C9_Witness ==
    /\ Returned("minimize_volatility_2")
    /\ ~call.norm /\ ~call.bound /\ call.target = None
    /\ solverLog[1].problem.constraints = <<>>
    /\ solverLog[1].problem.bounds = None

\* x is the vector with every entry 1/n
IsEqualWeight(x, n) ==
    /\ Len(x.num) = n
    /\ x.den > 0
    /\ \A j \in 1..n : x.num[j] * n = x.den

\* b is the pair (0, 1) once per asset
IsUnitBox(b, n) == Len(b) = n /\ \A j \in 1..n : b[j] = <<0, 1>>

\* the target return the arguments of the running call give to its i-th
\* invocation of the solver (None: no target)
ArgTarget(i) ==
    CASE call.fn \in {"minimize_volatility", "minimize_volatility_2"} -> call.target
      [] call.fn = "efficient_frontier" /\ i <= call.n_portfolios ->
            IF call.n_portfolios = 1
            THEN <<SeqMin(call.rets), 1>>
            ELSE <<SeqMin(call.rets) * (call.n_portfolios - 1)
                       + (i - 1) * (SeqMax(call.rets) - SeqMin(call.rets)),
                   call.n_portfolios - 1>>
      [] OTHER -> None

\* the objective the arguments of the running call give to its i-th invocation
ArgObjective(i) ==
    IF call.fn = "maximize_shape_ratio"
         \/ (call.fn = "efficient_frontier" /\ i = call.n_portfolios + 1)
    THEN "neg_portfolio_sharpe_ratio"
    ELSE "portfolio_volatility"

\* the constraints the arguments of the running call give to its i-th invocation
ArgConstraintFuns(i) ==
    (IF call.fn = "minimize_volatility_2" /\ ~call.norm THEN {} ELSE {"sum_to_one"})
    \cup (IF ArgTarget(i) # None THEN {"target_return"} ELSE {})
    \cup (IF call.fn = "maximize_shape_ratio" /\ call.tvol # None
          THEN {"target_volatility"} ELSE {})

\* the i-th problem of the log is the one the running call's arguments (and
\* the position i in the sweep) determine, whatever the earlier invocations
\* returned
ProblemFromArguments(i) ==
    LET p == solverLog[i].problem
        n == Len(call.rets)
    IN  /\ p.fun = ArgObjective(i)
        /\ p.args = (IF p.fun = "portfolio_volatility"
                     THEN <<covmat>>
                     ELSE <<call.rets, covmat, call.rf, call.ppy>>)
        /\ IsEqualWeight(p.x0, n)
        /\ IF call.fn = "minimize_volatility_2" /\ ~call.bound
           THEN p.bounds = None
           ELSE IsUnitBox(p.bounds, n)
        /\ ConstraintFuns(p) = ArgConstraintFuns(i)
        /\ Len(p.constraints) = Cardinality(ArgConstraintFuns(i))
        /\ \A j \in 1..Len(p.constraints) :
              LET c == p.constraints[j]
              IN  CASE c.fun = "target_return" ->
                         /\ RatEq(AsRat(c.target), AsRat(ArgTarget(i)))
                         /\ c.target[2] > 0
                         /\ c.args = <<call.rets>>
                    [] c.fun = "target_volatility" ->
                         /\ c.target = call.tvol
                         /\ c.args = <<covmat, call.ppy>>
                    [] OTHER -> c.target = None /\ c.args = <<>>

\* C11: the optimizers and efficient_frontier are stateless and leave the
\* caller's inputs alone: during and after every call, in any sequence of
\* calls, the return matrix and the covariance matrix are the ones the call
\* was given, and every problem handed to the solver (initial guess 1/N,
\* objective, constraints, bounds, target) is the one the call's own arguments
\* determine, not depending on earlier calls or on what the earlier
\* invocations of a sweep returned.
C11_StatelessAndInputsUntouched ==
    call.fn # "" =>
        /\ call.rets \in {annualize_rets(retMatrix, ppy) : ppy \in PpyChoices}
        /\ \A i \in 1..Len(solverLog) :
              /\ ProblemCov(solverLog[i].problem) = covmat
              /\ ProblemFromArguments(i)
        /\ call.fn \in Optimizers => Len(solverLog) = 1
        /\ call.fn = "efficient_frontier" => Len(solverLog) <= call.n_portfolios + 2

\* a frontier sweep of three points has returned although its first
\* invocation of the solver came back with weights other than 1/N (a different
\* vector from the one the second invocation was started at)
C11_Witness ==
    /\ Returned("efficient_frontier")
    /\ call.n_portfolios = 3
    /\ Len(call.rets) = 2
    /\ Len(solverLog) = 5
    /\ ~IsEqualWeight(weights[1], 2)
    /\ IsEqualWeight(solverLog[2].problem.x0, 2)

\* p and q are the same problem: the same objective and args, the same
\* starting point, the same bounds and the same constraints in any order
SameSolverProblem(p, q) ==
    /\ p.fun = q.fun
    /\ p.args = q.args
    /\ p.x0 = q.x0
    /\ p.bounds = q.bounds
    /\ Len(p.constraints) = Len(q.constraints)
    /\ {p.constraints[i] : i \in 1..Len(p.constraints)}
           = {q.constraints[i] : i \in 1..Len(q.constraints)}

\* C12: minimize_volatility(rets, cov, target) and minimize_volatility_2(rets,
\* cov, target) with its flags at their defaults (True, True) hand the solver
\* the same problem, for a target given or None: the volatility objective, the
\* initial guess 1/N, the equality constraints sum-to-one plus target-return
\* iff a target is given (as a set), and the bounds [0, 1] per asset.
C12_DefaultFlagsSameProblem ==
    /\ (call.fn = "minimize_volatility" /\ pc = "done") =>
          LET p == solverLog[1].problem
          IN  /\ SameSolverProblem(p, MinimizeVolatility2Problem(call.rets, covmat,
                                                               call.target, TRUE, TRUE))
              /\ p.fun = "portfolio_volatility"
              /\ IsEqualWeight(p.x0, Len(call.rets))
              /\ IsUnitBox(p.bounds, Len(call.rets))
              /\ ConstraintFuns(p) = {"sum_to_one"} \cup
                    (IF call.target # None THEN {"target_return"} ELSE {})
              /\ \A j \in 1..Len(p.constraints) : p.constraints[j].type = "eq"
    /\ (call.fn = "minimize_volatility_2" /\ pc = "done" /\ call.norm /\ call.bound) =>
          SameSolverProblem(solverLog[1].problem,
                            MinimizeVolatilityProblem(call.rets, covmat, call.target))

\* minimize_volatility_2 has returned with default flags and a target, where
\* its constraint tuple is minimize_volatility's in the other order
C12_Witness ==
    /\ Returned("minimize_volatility_2")
    /\ call.norm /\ call.bound /\ call.target # None
    /\ Len(call.rets) = 2
    /\ LET p == solverLog[1].problem
           q == MinimizeVolatilityProblem(call.rets, covmat, call.target)
       IN  /\ p.constraints # q.constraints
           /\ p.constraints = <<q.constraints[2], q.constraints[1]>>

(***************************************************************************)
(* portfolio_volatility in floating point (specification SpecVol).         *)
(* A float is an integer with at most MantBits significant bits; every     *)
(* product and every sum is rounded to the nearest float, ties to even, as *)
(* IEEE arithmetic rounds them (numpy's float64 has 53 bits).  np.dot is   *)
(* evaluated as the sum, left to right, of the rounded products.           *)
(***************************************************************************)
MantBits == 4       \* significant bits of a float
SqrtFrac == 4       \* a square root is kept in units of 2^-SqrtFrac
MaxFloatW == 8      \* weights handed to portfolio_volatility: 0..MaxFloatW
MaxFloatCov == 9    \* covariance entries: -MaxFloatCov..MaxFloatCov

\* the number of low bits to drop so that a > 0 fits in MantBits bits
RECURSIVE DropBits(_)
DropBits(a) == IF a < Pow(2, MantBits) THEN 0 ELSE 1 + DropBits(a \div 2)

\* round to nearest float, ties to even
FRound(x) ==
    LET a == Abs(x)
        e == DropBits(a)
        unit == Pow(2, e)
        q == a \div unit
        r == a % unit
        up == (2 * r > unit) \/ (2 * r = unit /\ q % 2 = 1)
        m == (IF up THEN q + 1 ELSE q) * unit
    IN  IF x < 0 THEN 0 - m ELSE m

IsFloat(x) == FRound(x) = x

RECURSIVE FSum(_, _)
FSum(acc, s) == IF s = <<>> THEN acc ELSE FSum(FRound(acc + Head(s)), Tail(s))

\* np.dot of two 1-d float arrays
FloatDot(a, b) == FSum(0, [i \in 1..Len(a) |-> FRound(a[i] * b[i])])

\* np.dot(weights.T, np.dot(cov_rets, weights))
FloatQuadForm(w, cov) == FloatDot(w, [i \in 1..Len(cov) |-> FloatDot(cov[i], w)])

RECURSIVE Isqrt(_)
Isqrt(n) ==
    IF n < 2 THEN n
    ELSE LET s == 2 * Isqrt(n \div 4)
         IN  IF (s + 1) * (s + 1) <= n THEN s + 1 ELSE s

\* the float nearest to sqrt(q), q >= 0, in units of 2^-SqrtFrac
FSqrt(q) ==
    LET big == q * Pow(4, SqrtFrac)
        root == Isqrt(big)
        sticky == IF root * root = big THEN 0 ELSE 1
    IN  FRound(2 * root + sticky) \div 2

NaN == [nan |-> TRUE, val |-> 0]

\* x ** 0.5 on a numpy float: nan for x < 0
PowHalf(x) == IF x < 0 THEN NaN ELSE [nan |-> FALSE, val |-> FSqrt(x)]

\* return (np.dot(weights.T, np.dot(cov_rets, weights))) ** (0.5)
portfolio_volatility(w, cov_rets) == PowHalf(FloatQuadForm(w, cov_rets))

\* symmetric positive-semidefinite matrices of order 1 and 2 with float entries
PsdMatrices ==
    {<<<<a>>>> : a \in {v \in 0..MaxFloatCov : IsFloat(v)}}
    \cup
    {<<<<a, b>>, <<b, d>>>> :
        a \in {v \in 0..MaxFloatCov : IsFloat(v)},
        b \in {v \in (0 - MaxFloatCov)..MaxFloatCov : IsFloat(v) /\ v * v <= MaxFloatCov * MaxFloatCov},
        d \in {v \in 0..MaxFloatCov : IsFloat(v)}}

IsPsd(cov) ==
    IF Len(cov) = 1 THEN cov[1][1] >= 0
    ELSE /\ cov[1][2] = cov[2][1]
         /\ cov[1][1] >= 0 /\ cov[2][2] >= 0
         /\ cov[1][1] * cov[2][2] - cov[1][2] * cov[2][1] >= 0

VolInputs ==
    {<<w, cov>> : w \in UNION {[1..n -> {v \in 0..MaxFloatW : IsFloat(v)}] : n \in 1..2},
                  cov \in {c \in PsdMatrices : IsPsd(c)}}

InitVol ==
    /\ volIn \in {in \in VolInputs : Len(in[1]) = Len(in[2])}
    /\ volOut = <<>>
    /\ retMatrix = <<>> /\ covmat = <<>> /\ pc = "idle" /\ call = NoCall
    /\ solverLog = <<>> /\ weights = <<>> /\ result = NoResult /\ status = "none"
    /\ tanIn = <<>> /\ tanOut = <<>>

CallPortfolioVolatility ==
    /\ volOut = <<>>
    /\ volOut' = <<portfolio_volatility(volIn[1], volIn[2])>>
    /\ UNCHANGED <<retMatrix, covmat, pc, call, solverLog, weights, result, status,
                   volIn, tanIn, tanOut>>

NextVol == CallPortfolioVolatility

SpecVol == InitVol /\ [][NextVol]_vars

\* C10: portfolio_volatility(w, cov) is a number >= 0, never NaN, for every
\* weight vector w and every positive-semidefinite cov: a quadratic form that
\* rounding leaves slightly negative is treated as zero.
C10_VolatilityNeverNaN ==
    (volOut # <<>> /\ IsPsd(volIn[2]))
        => (~volOut[1].nan /\ volOut[1].val >= 0)

(***************************************************************************)
(* weigths_max_sharpe_ratio (specification SpecTan).  Its first statement, *)
(* w = inverse_df(covmat).dot(mu_exc), looks the name inverse_df up in the *)
(* module's globals.  ModuleNames are the names the module binds: its      *)
(* imports and its defs.                                                   *)
(***************************************************************************)
ModuleNames ==
    {"datetime", "time", "plt", "np", "pd", "scipy", "sm", "inv", "minimize",
     "terminal_wealth", "compound_returns", "drawdown", "skewness", "kurtosis",
     "exkurtosis", "is_normal", "semivolatility", "var_historic", "var_gaussian",
     "cvar_historic", "annualize_rets", "annualize_vol", "sharpe_ratio",
     "portfolio_return", "portfolio_volatility", "efficient_frontier",
     "summary_stats", "summary_stats_terminal", "optimal_weights",
     "minimize_volatility", "minimize_volatility_2", "maximize_shape_ratio",
     "weigths_max_sharpe_ratio"}

\* Python's lookup of a global name: the name is bound, or NameError is raised
LookupRaises(name) == name \notin ModuleNames

\* the call raises at the lookup of inverse_df, before anything is computed
weigths_max_sharpe_ratio(covmat_, mu_exc, scale) ==
    IF LookupRaises("inverse_df")
    THEN [raised |-> "NameError", w |-> <<>>]
    ELSE [raised |-> "", w |-> <<>>]

TanVals == 0..2

TanInputs ==
    {<<<<<<a, b>>, <<b, d>>>>, <<m1, m2>>, sc>> :
        a \in TanVals, b \in TanVals, d \in TanVals,
        m1 \in TanVals, m2 \in TanVals, sc \in BOOLEAN}

InitTan ==
    /\ tanIn \in TanInputs
    /\ tanOut = <<>>
    /\ retMatrix = <<>> /\ covmat = <<>> /\ pc = "idle" /\ call = NoCall
    /\ solverLog = <<>> /\ weights = <<>> /\ result = NoResult /\ status = "none"
    /\ volIn = <<>> /\ volOut = <<>>

CallWeigthsMaxSharpeRatio ==
    /\ tanOut = <<>>
    /\ tanOut' = <<weigths_max_sharpe_ratio(tanIn[1], tanIn[2], tanIn[3])>>
    /\ UNCHANGED <<retMatrix, covmat, pc, call, solverLog, weights, result, status,
                   volIn, volOut, tanIn>>

NextTan == CallWeigthsMaxSharpeRatio

SpecTan == InitTan /\ [][NextTan]_vars

Det2(c) == c[1][1] * c[2][2] - c[1][2] * c[2][1]

\* inverse(c) . mu for a 2 x 2 matrix, as numerators over Det2(c)
InverseDot(c, mu) ==
    <<c[2][2] * mu[1] - c[1][2] * mu[2], c[1][1] * mu[2] - c[2][1] * mu[1]>>

\* C5: weigths_max_sharpe_ratio returns inverse(covmat) . mu_exc (rescaled to
\* sum 1 when scale is set) for an invertible covariance matrix and signals a
\* singular-covariance error for a singular one; it fails for no other reason.
C5_TangencyInvertsOrSignalsSingular ==
    tanOut # <<>> =>
        LET c == tanIn[1]
            v == InverseDot(c, tanIn[2])
            out == tanOut[1]
        IN  IF Det2(c) = 0
            THEN out.raised \in {"LinAlgError", "SingularCovarianceError"}
            ELSE /\ out.raised = ""
                 /\ Len(out.w) = 2
                 /\ \A i \in 1..2 :
                      IF tanIn[3]
                      THEN out.w[i].num * (v[1] + v[2]) = v[i] * out.w[i].den
                      ELSE out.w[i].num * Det2(c) = v[i] * out.w[i].den

====
